---- MODULE Spec2Model ----
(***************************************************************************)
(* Veld strategic benchmark analyzer                                       *)
(* (veld-benchmark/scripts/analyze-strategic-results.py).                  *)
(*                                                                         *)
(* Spec          : one run of the script, run_analysis() followed by the   *)
(*                 exit-status computation of the __main__ block.          *)
(* AnalyzerSpec  : load_results() followed by one category analyzer, on    *)
(*                 every file of a bounded family.                         *)
(*                                                                         *)
(* Numbers.  Scores are JSON numbers; they are modelled as exact           *)
(* non-negative rationals <<n, d>> in lowest terms (d > 0); a Python int k *)
(* is <<k>>.  On the inputs                                                *)
(* enumerated here the double-precision results of the script compare with *)
(* its thresholds exactly as the rationals do (320/400 is the double 0.8,  *)
(* 5 * 0.8 is the double 4.0).                                             *)
(*                                                                         *)
(* Names.  A benchmark name is modelled by the set of the marker           *)
(* substrings it contains, so that `marker in name` is set membership.     *)
(*                                                                         *)
(* Dicts.  A Python dict is a function from its keys; {} is EmptyDict and  *)
(* the truth value of a dict is DOMAIN d # {}.                             *)
(***************************************************************************)
EXTENDS Integers, Sequences, FiniteSets, TLC

VARIABLES
    pc,                 \* position of the run
    idx,                \* index in result_files of the next category to analyze
    category,           \* AnalyzerSpec: the category whose analyzer is exercised
    disk,               \* AnalyzerSpec: the result file as it is on disk
    raw_results,        \* AnalyzerSpec: what load_results returned
    analysis_results,   \* dict category -> verdict, in insertion order of result_files
    insights,           \* self.insights
    report,             \* the sections of the report built by generate_report
    report_file,        \* content of strategic-analysis-report.md (<<>> until written)
    stdout,             \* warnings and banners printed, in order
    exception,          \* "none" or the name of the uncaught exception
    exit_status         \* -1 while running, else the status of the process

vars == <<pc, idx, category, disk, raw_results, analysis_results, insights,
          report, report_file, stdout, exception, exit_status>>

-----------------------------------------------------------------------------
(* Bounds *)

\* longest benchmarks list of a file handed to a single analyzer (AnalyzerSpec)
MaxEntries == 3

\* longest benchmarks list of a file read by a whole run (Spec)
MaxRunEntries == 2

-----------------------------------------------------------------------------
(* Exact rational arithmetic standing for the script's float arithmetic *)

RECURSIVE GCD(_, _)
GCD(a, b) ==
    IF b = 0 THEN a ELSE GCD(b, a % b)

Rat(n, d) ==
    LET g == GCD(n, d) IN <<n \div g, d \div g>>

RInt(n) ==
    <<n, 1>>

RMul(a, b) ==
    Rat(a[1] * b[1], a[2] * b[2])

\* a / b, for b # 0
RDiv(a, b) ==
    Rat(a[1] * b[2], a[2] * b[1])

RAdd(a, b) ==
    LET l == (a[2] \div GCD(a[2], b[2])) * b[2]
    IN  Rat(a[1] * (l \div a[2]) + b[1] * (l \div b[2]), l)

RLt(a, b) ==
    a[1] * b[2] < b[1] * a[2]

RGt(a, b) ==
    RLt(b, a)

RGe(a, b) ==
    ~ RLt(a, b)

RIsZero(a) ==
    a[1] = 0

\* a Python int
PyInt(k) ==
    <<k>>

\* isinstance(x, float)
IsFloat(x) ==
    Len(x) = 2

ToRat(x) ==
    IF IsFloat(x) THEN x ELSE RInt(x[1])

\* a + b: int + int is an int, anything else a float
NumAdd(a, b) ==
    IF IsFloat(a) \/ IsFloat(b) THEN RAdd(ToRat(a), ToRat(b))
    ELSE PyInt(a[1] + b[1])

NumLt(a, b) ==
    RLt(ToRat(a), ToRat(b))

-----------------------------------------------------------------------------
(* Dicts *)

EmptyDict ==
    [k \in {} |-> 0]

\* `if d` / `not d` on a dict
Truthy(d) ==
    DOMAIN d # {}

\* d.get('passed', False)
GetPassed(d) ==
    IF "passed" \in DOMAIN d THEN d.passed ELSE FALSE

-----------------------------------------------------------------------------
(* The six categories and their files, in the order of result_files *)

result_files ==
    << "scalability", "contention", "memory",
       "hash_collision", "efficiency", "load_factor" >>

Categories ==
    { result_files[i] : i \in 1..Len(result_files) }

\* the marker substrings each analyzer looks for, in the order it tests them
Markers(cat) ==
    CASE cat = "scalability"    -> << "concurrentLookup", "singleThreadLookup" >>
      [] cat = "contention"     -> << "getLazyService" >>
      [] cat = "memory"         -> << "memoryOverhead", "threadLocalCacheBehavior" >>
      [] cat = "hash_collision" -> << "worstCaseHashCollision" >>
      [] cat = "efficiency"     -> << "concurrentEfficiency", "singleEfficiency" >>
      [] cat = "load_factor"    -> << "loadFactorValidation" >>

MarkerSet(cat) ==
    { Markers(cat)[i] : i \in 1..Len(Markers(cat)) }

-----------------------------------------------------------------------------
(* Outcomes of a call: a returned value or an exception that propagates *)

Return(v) ==
    [raised |-> "none", ret |-> v]

Raise(e) ==
    [raised |-> e, ret |-> EmptyDict]

-----------------------------------------------------------------------------
(* load_results.  A file on disk is missing, holds text that is not JSON,  *)
(* or holds a JSON object (a dict, with or without the 'benchmarks' key).  *)

MissingFile ==
    [kind |-> "missing"]

MalformedFile ==
    [kind |-> "malformed"]

JsonFile(d) ==
    [kind |-> "json", value |-> d]

\* variant: no `except json.JSONDecodeError`
load_results_unhandled(filepath, file) ==
    CASE file.kind = "json" ->
            [call |-> Return(file.value), out |-> <<>>]
      [] file.kind = "missing" ->
            [call |-> Return(EmptyDict),
             out  |-> << <<"Warning: not found", filepath>> >>]
      [] file.kind = "malformed" ->
            [call |-> Raise("JSONDecodeError"), out |-> <<>>]

\* the value returned (or the exception raised) and the lines printed
load_results(filepath, file) ==
    CASE file.kind = "json" ->
            [call |-> Return(file.value), out |-> <<>>]
      [] file.kind = "missing" ->
            [call |-> Return(EmptyDict),
             out  |-> << <<"Warning: not found", filepath>> >>]
      [] file.kind = "malformed" ->
            [call |-> Return(EmptyDict),
             out  |-> << <<"Warning: Invalid JSON", filepath>> >>]

-----------------------------------------------------------------------------
(* The scans of the benchmarks list.  A found entry is <<bench>>, None is  *)
(* <<>>.                                                                   *)

Score(data) ==
    data[1].primaryMetric.score

\* for bench in benchmarks: if m in name: data = bench; break
RECURSIVE ScanFirst(_, _, _)
ScanFirst(benchmarks, i, m) ==
    IF i > Len(benchmarks) THEN <<>>
    ELSE IF m \in benchmarks[i].benchmark THEN << benchmarks[i] >>
    ELSE ScanFirst(benchmarks, i + 1, m)

\* for bench in benchmarks: if m1 in name: a = bench  elif m2 in name: b = bench
\* (no break: the loop runs to the end of the list)
RECURSIVE ScanPair(_, _, _, _, _, _)
ScanPair(benchmarks, i, m1, m2, a, b) ==
    IF i > Len(benchmarks) THEN <<a, b>>
    ELSE IF m1 \in benchmarks[i].benchmark
         THEN ScanPair(benchmarks, i + 1, m1, m2, << benchmarks[i] >>, b)
    ELSE IF m2 \in benchmarks[i].benchmark
         THEN ScanPair(benchmarks, i + 1, m1, m2, a, << benchmarks[i] >>)
    ELSE ScanPair(benchmarks, i + 1, m1, m2, a, b)

\* variant: each marker's first match, as if each assignment ended its search
scalability_scan_first(benchmarks) ==
    << ScanFirst(benchmarks, 1, "concurrentLookup"),
       ScanFirst(benchmarks, 1, "singleThreadLookup") >>

scalability_scan(benchmarks) ==
    ScanPair(benchmarks, 1, "concurrentLookup", "singleThreadLookup", <<>>, <<>>)

contention_scan(benchmarks) ==
    ScanFirst(benchmarks, 1, "getLazyService")

memory_scan(benchmarks) ==
    ScanPair(benchmarks, 1, "memoryOverhead", "threadLocalCacheBehavior", <<>>, <<>>)

hash_collision_scan(benchmarks) ==
    ScanFirst(benchmarks, 1, "worstCaseHashCollision")

efficiency_scan(benchmarks) ==
    ScanPair(benchmarks, 1, "concurrentEfficiency", "singleEfficiency", <<>>, <<>>)

load_factor_scan(benchmarks) ==
    ScanFirst(benchmarks, 1, "loadFactorValidation")

-----------------------------------------------------------------------------
(* Pass conditions *)

\* variant: `>=` for `>`
scalability_passed_inclusive(efficiency) ==
    RGe(efficiency, Rat(8, 10))

\* efficiency > 0.8
scalability_passed(efficiency) ==
    RGt(efficiency, Rat(8, 10))

\* avg_time < 1000
contention_passed(avg_time) ==
    RLt(avg_time, RInt(1000))

\* (memory_mb + cache_mb) < 10
memory_passed(memory_mb, cache_mb) ==
    NumLt(NumAdd(memory_mb, cache_mb), PyInt(10))

\* avg_time < 500
hash_collision_passed(avg_time) ==
    RLt(avg_time, RInt(500))

\* efficiency > 0.75
efficiency_passed(efficiency) ==
    RGt(efficiency, Rat(75, 100))

\* load_factor < 0.7
load_factor_passed(load_factor) ==
    RLt(load_factor, Rat(7, 10))

-----------------------------------------------------------------------------
(* The six analyzers *)

analyze_scalability(results) ==
    IF "benchmarks" \notin DOMAIN results THEN Return(EmptyDict)
    ELSE
    LET found           == scalability_scan(results.benchmarks)
        concurrent_data == found[1]
        single_data     == found[2]
    IN
    IF concurrent_data = <<>> \/ single_data = <<>> THEN Return(EmptyDict)
    ELSE
    LET concurrent_avg == Score(concurrent_data)
        single_avg     == Score(single_data)
        divisor        == RMul(single_avg, RInt(4))
    IN
    IF RIsZero(divisor) THEN Raise("ZeroDivisionError")
    ELSE
    LET efficiency == RDiv(concurrent_avg, divisor) IN
    Return([ concurrent_avg_ns     |-> concurrent_avg,
             single_avg_ns         |-> single_avg,
             efficiency_ratio      |-> efficiency,
             efficiency_percentage |-> RMul(efficiency, RInt(100)),
             passed                |-> scalability_passed(efficiency),
             status                |-> IF RGt(efficiency, Rat(8, 10))
                                       THEN "PASS" ELSE "FAIL" ])

analyze_contention(results) ==
    IF "benchmarks" \notin DOMAIN results THEN Return(EmptyDict)
    ELSE
    LET lazy_data == contention_scan(results.benchmarks) IN
    IF lazy_data = <<>> THEN Return(EmptyDict)
    ELSE
    LET avg_time == Score(lazy_data) IN
    Return([ avg_lazy_lookup_ns |-> avg_time,
             threads            |-> PyInt(8),
             passed             |-> contention_passed(avg_time),
             status             |-> IF RLt(avg_time, RInt(1000))
                                    THEN "PASS" ELSE "FAIL" ])

\* variant: both entries required, as in analyze_scalability
analyze_memory_overhead_requiring(results) ==
    IF "benchmarks" \notin DOMAIN results THEN Return(EmptyDict)
    ELSE
    LET found       == memory_scan(results.benchmarks)
        memory_data == found[1]
        cache_data  == found[2]
    IN
    IF memory_data = <<>> \/ cache_data = <<>> THEN Return(EmptyDict)
    ELSE
    LET memory_mb == RDiv(Score(memory_data), RInt(1024 * 1024))
        cache_mb  == RDiv(Score(cache_data), RInt(1024 * 1024))
    IN
    Return([ memory_overhead_mb   |-> memory_mb,
             threadlocal_cache_mb |-> cache_mb,
             total_memory_mb      |-> NumAdd(memory_mb, cache_mb),
             passed               |-> memory_passed(memory_mb, cache_mb),
             status               |-> IF NumLt(NumAdd(memory_mb, cache_mb), PyInt(10))
                                      THEN "PASS" ELSE "FAIL" ])

analyze_memory_overhead(results) ==
    IF "benchmarks" \notin DOMAIN results THEN Return(EmptyDict)
    ELSE
    LET found       == memory_scan(results.benchmarks)
        memory_data == found[1]
        cache_data  == found[2]
        memory_mb   == IF memory_data # <<>>
                       THEN RDiv(Score(memory_data), RInt(1024 * 1024))
                       ELSE PyInt(0)
        cache_mb    == IF cache_data # <<>>
                       THEN RDiv(Score(cache_data), RInt(1024 * 1024))
                       ELSE PyInt(0)
    IN
    Return([ memory_overhead_mb   |-> memory_mb,
             threadlocal_cache_mb |-> cache_mb,
             total_memory_mb      |-> NumAdd(memory_mb, cache_mb),
             passed               |-> memory_passed(memory_mb, cache_mb),
             status               |-> IF NumLt(NumAdd(memory_mb, cache_mb), PyInt(10))
                                      THEN "PASS" ELSE "FAIL" ])

analyze_hash_collision(results) ==
    IF "benchmarks" \notin DOMAIN results THEN Return(EmptyDict)
    ELSE
    LET collision_data == hash_collision_scan(results.benchmarks) IN
    IF collision_data = <<>> THEN Return(EmptyDict)
    ELSE
    LET avg_time == Score(collision_data) IN
    Return([ worst_case_lookup_ns |-> avg_time,
             analysis             |-> "Tests current O(n) array search",
             passed               |-> hash_collision_passed(avg_time),
             status               |-> IF RLt(avg_time, RInt(500))
                                      THEN "PASS" ELSE "FAIL" ])

analyze_efficiency(results) ==
    IF "benchmarks" \notin DOMAIN results THEN Return(EmptyDict)
    ELSE
    LET found          == efficiency_scan(results.benchmarks)
        concurrent_eff == found[1]
        single_eff     == found[2]
    IN
    IF concurrent_eff = <<>> \/ single_eff = <<>> THEN Return(EmptyDict)
    ELSE
    LET concurrent_avg == Score(concurrent_eff)
        single_avg     == Score(single_eff)
        divisor        == RMul(single_avg, RInt(4))
    IN
    IF RIsZero(divisor) THEN Raise("ZeroDivisionError")
    ELSE
    LET efficiency == RDiv(concurrent_avg, divisor) IN
    Return([ concurrent_efficiency_ns |-> concurrent_avg,
             single_efficiency_ns     |-> single_avg,
             efficiency_ratio         |-> efficiency,
             efficiency_percentage    |-> RMul(efficiency, RInt(100)),
             passed                   |-> efficiency_passed(efficiency),
             status                   |-> IF RGt(efficiency, Rat(75, 100))
                                          THEN "PASS" ELSE "FAIL" ])

analyze_load_factor(results) ==
    IF "benchmarks" \notin DOMAIN results THEN Return(EmptyDict)
    ELSE
    LET load_factor_data == load_factor_scan(results.benchmarks) IN
    IF load_factor_data = <<>> THEN Return(EmptyDict)
    ELSE
    LET load_factor == Score(load_factor_data) IN
    Return([ current_load_factor |-> load_factor,
             target_load_factor  |-> Rat(7, 10),
             analysis            |-> "Current vs Target: 0.70 (Power-of-2 capacity)",
             passed              |-> load_factor_passed(load_factor),
             status              |-> IF RLt(load_factor, Rat(7, 10))
                                     THEN "PASS" ELSE "FAIL" ])

\* the if/elif chain of run_analysis
Dispatch(cat, results) ==
    CASE cat = "scalability"    -> analyze_scalability(results)
      [] cat = "contention"     -> analyze_contention(results)
      [] cat = "memory"         -> analyze_memory_overhead(results)
      [] cat = "hash_collision" -> analyze_hash_collision(results)
      [] cat = "efficiency"     -> analyze_efficiency(results)
      [] cat = "load_factor"    -> analyze_load_factor(results)

Filepath(cat) ==
    CASE cat = "scalability"    -> "results/scalability-results.json"
      [] cat = "contention"     -> "results/contention-results.json"
      [] cat = "memory"         -> "results/memory-results.json"
      [] cat = "hash_collision" -> "results/hash-collision-results.json"
      [] cat = "efficiency"     -> "results/efficiency-results.json"
      [] cat = "load_factor"    -> "results/load-factor-results.json"

-----------------------------------------------------------------------------
(* Input families *)

\* scores offered to a single analyzer: the thresholds and their neighbours
Scores(cat) ==
    CASE cat = "scalability"    -> { RInt(0), RInt(100), RInt(320), RInt(321) }
      [] cat = "contention"     -> { RInt(999), RInt(1000) }
      [] cat = "memory"         -> { RInt(5242880), RInt(10485759), RInt(10485760) }
      [] cat = "hash_collision" -> { RInt(499), RInt(500) }
      [] cat = "efficiency"     -> { RInt(0), RInt(100), RInt(300), RInt(301) }
      [] cat = "load_factor"    -> { Rat(69, 100), Rat(70, 100) }

\* scores offered to a whole run: a passing and a failing combination each
RunScores(cat) ==
    CASE cat = "scalability"    -> { RInt(0), RInt(100), RInt(400) }
      [] cat = "contention"     -> { RInt(999), RInt(1000) }
      [] cat = "memory"         -> { RInt(5242880), RInt(10485760) }
      [] cat = "hash_collision" -> { RInt(499), RInt(500) }
      [] cat = "efficiency"     -> { RInt(100), RInt(400) }
      [] cat = "load_factor"    -> { Rat(69, 100), Rat(70, 100) }

Entries(cat, scores) ==
    { [benchmark |-> n, primaryMetric |-> [score |-> s]] :
        n \in SUBSET MarkerSet(cat), s \in scores }

Lists(S, n) ==
    UNION { [1..k -> S] : k \in 0..n }

Files(cat, scores, n) ==
    { MissingFile, MalformedFile, JsonFile(EmptyDict) }
    \cup { JsonFile([benchmarks |-> l]) : l \in Lists(Entries(cat, scores), n) }

\* analysis_results[k] = v
Put(d, k, v) ==
    [x \in DOMAIN d \cup {k} |-> IF x = k THEN v ELSE d[x]]

-----------------------------------------------------------------------------
(* AnalyzerSpec: load one file, run the analyzer of its category on it *)

UnitInit ==
    /\ pc = "unit_load"
    /\ idx = 0
    /\ category \in Categories
    /\ disk \in Files(category, Scores(category), MaxEntries)
    /\ raw_results = EmptyDict
    /\ analysis_results = EmptyDict
    /\ insights = <<>>
    /\ report = <<>>
    /\ report_file = <<>>
    /\ stdout = <<>>
    /\ exception = "none"
    /\ exit_status = -1

\* raw_results = self.load_results(filepath)
UnitLoad ==
    /\ pc = "unit_load"
    /\ LET l == load_results(Filepath(category), disk) IN
       IF l.call.raised # "none"
       THEN /\ pc' = "unit_raised"
            /\ exception' = l.call.raised
            /\ stdout' = stdout \o l.out
            /\ UNCHANGED raw_results
       ELSE /\ pc' = "unit_analyze"
            /\ raw_results' = l.call.ret
            /\ stdout' = stdout \o l.out
            /\ UNCHANGED exception
    /\ UNCHANGED <<idx, category, disk, analysis_results, insights, report,
                   report_file, exit_status>>

\* analysis_results[category] = self.analyze_<category>(raw_results)
UnitAnalyze ==
    /\ pc = "unit_analyze"
    /\ LET r == Dispatch(category, raw_results) IN
       IF r.raised # "none"
       THEN /\ pc' = "unit_raised"
            /\ exception' = r.raised
            /\ UNCHANGED analysis_results
       ELSE /\ pc' = "unit_done"
            /\ analysis_results' = Put(analysis_results, category, r.ret)
            /\ UNCHANGED exception
    /\ UNCHANGED <<idx, category, disk, raw_results, insights, report,
                   report_file, stdout, exit_status>>

UnitNext ==
    \/ UnitLoad
    \/ UnitAnalyze

AnalyzerSpec ==
    UnitInit /\ [][UnitNext]_vars

-----------------------------------------------------------------------------
(* String formatting of numbers *)

RECURSIVE Pow10(_)
Pow10(k) ==
    IF k = 0 THEN 1 ELSE 10 * Pow10(k - 1)

\* f"{x:.kf}": x * 10^k rounded to the nearest integer, ties to even; the
\* result stands for the decimal string with k digits after the point
Fixed(x, k) ==
    LET r    == ToRat(x)
        num  == r[1] * Pow10(k)
        q    == num \div r[2]
        rem2 == 2 * (num % r[2])
    IN  IF rem2 > r[2] \/ (rem2 = r[2] /\ q % 2 = 1) THEN q + 1 ELSE q

-----------------------------------------------------------------------------
(* generate_insights *)

\* variant: a fifth block, for efficiency
InsightBlocks_withEfficiency ==
    << [cat |-> "scalability",    key |-> "efficiency_percentage", digits |-> 1],
       [cat |-> "contention",     key |-> "avg_lazy_lookup_ns",    digits |-> 0],
       [cat |-> "memory",         key |-> "total_memory_mb",       digits |-> 1],
       [cat |-> "hash_collision", key |-> "worst_case_lookup_ns",  digits |-> 0],
       [cat |-> "efficiency",     key |-> "efficiency_percentage", digits |-> 1] >>

\* the four `if '<category>' in analysis_results:` blocks, with the metric
\* key each one formats
InsightBlocks ==
    << [cat |-> "scalability",    key |-> "efficiency_percentage", digits |-> 1],
       [cat |-> "contention",     key |-> "avg_lazy_lookup_ns",    digits |-> 0],
       [cat |-> "memory",         key |-> "total_memory_mb",       digits |-> 1],
       [cat |-> "hash_collision", key |-> "worst_case_lookup_ns",  digits |-> 0] >>

InsightText(cat, passed) ==
    CASE cat = "scalability" ->
            IF passed THEN "SCALABILITY: Excellent efficiency"
                      ELSE "SCALABILITY: Poor efficiency (target: >80%)"
      [] cat = "contention" ->
            IF passed THEN "CONTENTION: Low contention latency"
                      ELSE "CONTENTION: High contention latency"
      [] cat = "memory" ->
            IF passed THEN "MEMORY: Low overhead"
                      ELSE "MEMORY: High overhead"
      [] cat = "hash_collision" ->
            IF passed THEN "HASH COLLISION: Acceptable worst-case"
                      ELSE "HASH COLLISION: Poor worst-case"
      [] OTHER ->
            IF passed THEN "(no text)" ELSE "(no text)"

\* one appended insight: its emoji, what it is about (a category, "overall",
\* "recommendation"), its text, the numbers formatted into it
Insight(mark, about, text, args) ==
    [mark |-> mark, about |-> about, text |-> text, args |-> args]

\* the blocks from the i-th on; a missing metric key raises KeyError and
\* leaves what was appended so far in self.insights
RECURSIVE CategoryInsights(_, _, _)
CategoryInsights(analysis, i, acc) ==
    IF i > Len(InsightBlocks) THEN [raised |-> "none", lines |-> acc]
    ELSE
    LET b == InsightBlocks[i] IN
    IF b.cat \notin DOMAIN analysis THEN CategoryInsights(analysis, i + 1, acc)
    ELSE
    LET v      == analysis[b.cat]
        passed == GetPassed(v)
    IN
    IF b.key \notin DOMAIN v THEN [raised |-> "KeyError", lines |-> acc]
    ELSE CategoryInsights(analysis, i + 1,
            Append(acc, Insight(IF passed THEN "ok" ELSE "warning", b.cat,
                                InsightText(b.cat, passed),
                                << Fixed(v[b.key], b.digits) >>)))

\* sum(1 for result in analysis_results.values() if result.get('passed', False))
total_passed(analysis) ==
    Cardinality({ c \in DOMAIN analysis : GetPassed(analysis[c]) })

\* len([r for r in analysis_results.values() if r])
total_tests(analysis) ==
    Cardinality({ c \in DOMAIN analysis : Truthy(analysis[c]) })

\* variant: `>` for `>=` in the elif
recommendation_tier_strict(passed, total) ==
    IF passed = total
    THEN "ALL STRATEGIC TESTS PASSED - Framework ready for production!"
    ELSE IF RGt(RInt(passed), RMul(RInt(total), Rat(8, 10)))
    THEN "MOSTLY READY - Minor optimizations recommended"
    ELSE "NEEDS OPTIMIZATION - Several critical issues found"

\* the if / elif / else after the OVERALL line
recommendation_tier(passed, total) ==
    IF passed = total
    THEN "ALL STRATEGIC TESTS PASSED - Framework ready for production!"
    ELSE IF RGe(RInt(passed), RMul(RInt(total), Rat(8, 10)))
    THEN "MOSTLY READY - Minor optimizations recommended"
    ELSE "NEEDS OPTIMIZATION - Several critical issues found"

OverallInsights(analysis) ==
    LET passed == total_passed(analysis)
        total  == total_tests(analysis)
    IN  << Insight("chart", "overall", "OVERALL: tests passed", <<passed, total>>),
           Insight(IF passed = total THEN "party"
                   ELSE IF RGe(RInt(passed), RMul(RInt(total), Rat(8, 10)))
                   THEN "ok" ELSE "warning",
                   "recommendation", recommendation_tier(passed, total), <<>>) >>

\* the lines appended to self.insights, and the exception raised if any
generate_insights(analysis) ==
    LET per == CategoryInsights(analysis, 1, <<>>) IN
    IF per.raised # "none" THEN per
    ELSE [raised |-> "none", lines |-> per.lines \o OverallInsights(analysis)]

-----------------------------------------------------------------------------
(* generate_report *)

\* the keys of a verdict in insertion order
VerdictKeys(cat) ==
    CASE cat = "scalability" ->
            << "concurrent_avg_ns", "single_avg_ns", "efficiency_ratio",
               "efficiency_percentage", "passed", "status" >>
      [] cat = "contention" ->
            << "avg_lazy_lookup_ns", "threads", "passed", "status" >>
      [] cat = "memory" ->
            << "memory_overhead_mb", "threadlocal_cache_mb", "total_memory_mb",
               "passed", "status" >>
      [] cat = "hash_collision" ->
            << "worst_case_lookup_ns", "analysis", "passed", "status" >>
      [] cat = "efficiency" ->
            << "concurrent_efficiency_ns", "single_efficiency_ns",
               "efficiency_ratio", "efficiency_percentage", "passed", "status" >>
      [] cat = "load_factor" ->
            << "current_load_factor", "target_load_factor", "analysis",
               "passed", "status" >>

\* one rendered field of the detail section: its label, how the value is
\* printed ("s" as is, "3f" with three decimals) and the number printed
\* (0 for the status string, which is the label's text)
DetailLine(key, value) ==
    IF key = "status" THEN [label |-> "Status: " \o value, fmt |-> "s", num |-> 0]
    ELSE IF IsFloat(value) THEN [label |-> key, fmt |-> "3f", num |-> Fixed(value, 3)]
    ELSE [label |-> key, fmt |-> "s", num |-> value[1]]

ShownKeys(cat) ==
    SelectSeq(VerdictKeys(cat), LAMBDA k : k \notin {"analysis", "passed"})

\* for category, results in analysis_results.items(): skip the empty ones
CategoryDetail(cat, v) ==
    [heading |-> cat,
     lines   |-> [i \in 1..Len(ShownKeys(cat)) |->
                    DetailLine(ShownKeys(cat)[i], v[ShownKeys(cat)[i]])]]

RECURSIVE Detail(_, _)
Detail(analysis, i) ==
    IF i > Len(result_files) THEN <<>>
    ELSE LET cat == result_files[i] IN
         IF cat \in DOMAIN analysis /\ Truthy(analysis[cat])
         THEN << CategoryDetail(cat, analysis[cat]) >> \o Detail(analysis, i + 1)
         ELSE Detail(analysis, i + 1)

\* the categories of the TECHNICAL RECOMMENDATIONS section, in its order
RecommendationOrder ==
    << "scalability", "hash_collision", "memory", "load_factor" >>

\* variant: a bullet only for a category that has data and failed
recommendation_due_failed_only(analysis, cat) ==
    /\ cat \in DOMAIN analysis
    /\ Truthy(analysis[cat])
    /\ ~ GetPassed(analysis[cat])

\* not analysis_results.get(cat, {}).get('passed', False)
recommendation_due(analysis, cat) ==
    ~ GetPassed(IF cat \in DOMAIN analysis THEN analysis[cat] ELSE EmptyDict)

Recommendations(analysis) ==
    SelectSeq(RecommendationOrder, LAMBDA c : recommendation_due(analysis, c))

generate_report(analysis, lines) ==
    LET passed == total_passed(analysis)
        total  == total_tests(analysis)
    IN
    IF total = 0 THEN Raise("ZeroDivisionError")
    ELSE Return([ summary |-> [ passed  |-> passed,
                                total   |-> total,
                                percent |-> Fixed(RMul(RDiv(RInt(passed), RInt(total)),
                                                       RInt(100)), 1) ],
                  detail          |-> Detail(analysis, 1),
                  insights        |-> lines,
                  recommendations |-> Recommendations(analysis) ])

\* the count of the __main__ block
critical_failures(results) ==
    Cardinality({ c \in DOMAIN results :
                    Truthy(results[c]) /\ ~ GetPassed(results[c]) })

-----------------------------------------------------------------------------
(* Spec: one run of the script *)

Init ==
    /\ pc = "loop"
    /\ idx = 1
    /\ category = "none"
    /\ disk = MissingFile
    /\ raw_results = EmptyDict
    /\ analysis_results = EmptyDict
    /\ insights = <<>>
    /\ report = <<>>
    /\ report_file = <<>>
    /\ stdout = <<>>
    /\ exception = "none"
    /\ exit_status = -1

\* an exception nobody catches: the interpreter prints the traceback and the
\* process ends with status 1
Uncaught(e) ==
    /\ pc' = "crashed"
    /\ exception' = e
    /\ exit_status' = 1

\* one iteration of `for category, filepath in result_files`: load the file
\* as it is on disk, analyze it, store the verdict.  raw_results is local to
\* the iteration and is not kept.
AnalyzeCategory ==
    /\ pc = "loop"
    /\ LET cat == result_files[idx] IN
       \E file \in Files(cat, RunScores(cat), MaxRunEntries) :
          LET l == load_results(Filepath(cat), file)
              r == IF l.call.raised # "none" THEN l.call
                   ELSE Dispatch(cat, l.call.ret)
          IN
          /\ category' = cat
          /\ stdout' = stdout \o << <<"Analyzing", cat>> >> \o l.out
          /\ IF r.raised # "none"
             THEN /\ Uncaught(r.raised)
                  /\ UNCHANGED <<idx, analysis_results>>
             ELSE /\ analysis_results' = Put(analysis_results, cat, r.ret)
                  /\ idx' = idx + 1
                  /\ pc' = IF idx = Len(result_files) THEN "insights" ELSE "loop"
                  /\ UNCHANGED <<exception, exit_status>>
    /\ UNCHANGED <<disk, raw_results, insights, report, report_file>>

\* self.generate_insights(analysis_results)
GenerateInsights ==
    /\ pc = "insights"
    /\ LET g == generate_insights(analysis_results) IN
       /\ insights' = insights \o g.lines
       /\ IF g.raised # "none"
          THEN Uncaught(g.raised)
          ELSE /\ pc' = "report"
               /\ UNCHANGED <<exception, exit_status>>
    /\ UNCHANGED <<idx, category, disk, raw_results, analysis_results, report,
                   report_file, stdout>>

\* report = self.generate_report(analysis_results)
GenerateReport ==
    /\ pc = "report"
    /\ LET g == generate_report(analysis_results, insights) IN
       IF g.raised # "none"
       THEN /\ Uncaught(g.raised)
            /\ UNCHANGED report
       ELSE /\ report' = << g.ret >>
            /\ pc' = "save"
            /\ UNCHANGED <<exception, exit_status>>
    /\ UNCHANGED <<idx, category, disk, raw_results, analysis_results, insights,
                   report_file, stdout>>

\* write the report file, print the summary and the insights, return
SaveReport ==
    /\ pc = "save"
    /\ report_file' = report
    /\ stdout' = stdout \o << <<"Analysis report saved to",
                               "results/strategic-analysis-report.md">>,
                             <<"STRATEGIC VALIDATION SUMMARY", "insights">> >>
    /\ pc' = "main"
    /\ UNCHANGED <<idx, category, disk, raw_results, analysis_results, insights,
                   report, exception, exit_status>>

\* the __main__ block after run_analysis returned
Exit ==
    /\ pc = "main"
    /\ IF critical_failures(analysis_results) > 0
       THEN /\ stdout' = stdout \o << <<"critical tests failed", "exit 1">> >>
            /\ exit_status' = 1
       ELSE /\ stdout' = stdout \o << <<"All strategic tests passed!", "exit 0">> >>
            /\ exit_status' = 0
    /\ pc' = "exited"
    /\ UNCHANGED <<idx, category, disk, raw_results, analysis_results, insights,
                   report, report_file, exception>>

Next ==
    \/ AnalyzeCategory
    \/ GenerateInsights
    \/ GenerateReport
    \/ SaveReport
    \/ Exit

Spec ==
    Init /\ [][Next]_vars

-----------------------------------------------------------------------------
(* Vocabulary of the properties *)

Terminated ==
    pc \in {"exited", "crashed"}

AllAnalyzed ==
    DOMAIN analysis_results = Categories

HasData(cat) ==
    cat \in DOMAIN analysis_results /\ analysis_results[cat] # EmptyDict

PassedTrue(cat) ==
    /\ HasData(cat)
    /\ "passed" \in DOMAIN analysis_results[cat]
    /\ analysis_results[cat].passed = TRUE

FailedCategory(cat) ==
    /\ HasData(cat)
    /\ "passed" \in DOMAIN analysis_results[cat]
    /\ analysis_results[cat].passed = FALSE

NumPassed ==
    Cardinality({ c \in Categories : PassedTrue(c) })

NumWithData ==
    Cardinality({ c \in Categories : HasData(c) })

\* the run printed `text` about the file of result_files[i]
Printed(text, i) ==
    \E k \in 1..Len(stdout) : stdout[k] = <<text, Filepath(result_files[i])>>

Warned(i) ==
    Printed("Warning: not found", i) \/ Printed("Warning: Invalid JSON", i)

AllFilesMissing ==
    \A i \in 1..Len(result_files) : Printed("Warning: not found", i)

InsightsDone ==
    pc \in {"report", "save", "main", "exited"}

\* what the appended insights are about, in order
Abouts ==
    [i \in 1..Len(insights) |-> insights[i].about]

CategoryLines ==
    SelectSeq(insights, LAMBDA l : l.about \in Categories)

ReportWritten ==
    report_file # <<>>

-----------------------------------------------------------------------------
(* C1: a run over six verdicts ends with status 1 if and only if some      *)
(* category has a non-empty verdict with passed = false, and with status 0 *)
(* otherwise.                                                              *)
C1_ExitStatusIffFailure ==
    (Terminated /\ AllAnalyzed) =>
        /\ exit_status = 1 <=> (\E c \in Categories : FailedCategory(c))
        /\ exit_status = 0 <=> ~ (\E c \in Categories : FailedCategory(c))

(* C2: when all six result files are missing the run does not crash: every *)
(* verdict is empty, the tally is 0/0 and the process exits with status 0. *)
C2_AllMissingExitsZero ==
    AllFilesMissing =>
        /\ \A c \in Categories : ~ HasData(c)
        /\ NumPassed = 0 /\ NumWithData = 0
        /\ exception = "none"
        /\ Terminated => exit_status = 0

\* only scalability has data, and it failed; the other five files are missing
OnlyScalabilityFails ==
    /\ FailedCategory("scalability")
    /\ \A i \in 2..Len(result_files) : Printed("Warning: not found", i)

(* C4: empty verdicts are skipped without error: a run in which only       *)
(* scalability has data and fails, the other five files missing, completes,*)
(* writes a report whose summary tallies 0/1, has the scalability failure  *)
(* insight and exits with status 1.                                        *)
C4_OnlyScalabilityFailsCompletes ==
    (OnlyScalabilityFails /\ Terminated) =>
        /\ exception = "none"
        /\ pc = "exited"
        /\ ReportWritten
        /\ report_file[1].summary.passed = 0
        /\ report_file[1].summary.total = 1
        /\ \E k \in 1..Len(insights) :
              insights[k].about = "scalability" /\ insights[k].mark = "warning"
        /\ exit_status = 1

-----------------------------------------------------------------------------
(* C7, as claimed: the number of per-category insight lines equals the     *)
(* number of categories with data (non-empty verdicts), over all six       *)
(* categories.                                                             *)
C7_OneLinePerCategoryWithData ==
    InsightsDone => Len(CategoryLines) = NumWithData

InsightOrder ==
    << "scalability", "contention", "memory", "hash_collision" >>

\* the per-category lines are about the first k categories of InsightOrder
LinesCoverFirst(k) ==
    /\ Len(CategoryLines) = k
    /\ \A i \in 1..k :
          /\ CategoryLines[i].about = InsightOrder[i]
          /\ HasData(InsightOrder[i])
          /\ CategoryLines[i].mark = "ok" <=> PassedTrue(InsightOrder[i])
          /\ CategoryLines[i].mark = "warning" <=> FailedCategory(InsightOrder[i])

(* C7, amended: per-category sentences exist only for scalability,         *)
(* contention, memory and hash_collision, never for efficiency or          *)
(* load_factor.  They are appended in that order, one per category with    *)
(* data, until the first of the four whose verdict is empty, where the     *)
(* generator raises KeyError.  A generator that returns has appended       *)
(* exactly these four lines, pass or fail as the verdict says, followed by *)
(* the tally line and the recommendation, however many of the six verdicts *)
(* have data.                                                              *)
C7_InsightLinesForFirstFour ==
    /\ \A k \in 1..Len(insights) :
          insights[k].about \notin {"efficiency", "load_factor"}
    /\ InsightsDone =>
          /\ LinesCoverFirst(4)
          /\ Abouts = InsightOrder \o <<"overall", "recommendation">>
    /\ (pc = "crashed" /\ exception = "KeyError") =>
          \E k \in 0..3 :
             /\ LinesCoverFirst(k)
             /\ ~ HasData(InsightOrder[k + 1])
             /\ Len(insights) = k
    /\ pc \in {"loop", "insights"} => insights = <<>>

\* all six categories have data, and the generator wrote four lines for them
C7_Witness ==
    /\ pc = "exited"
    /\ NumWithData = 6
    /\ Len(CategoryLines) = 4
    /\ FailedCategory("contention")
    /\ PassedTrue("efficiency")

-----------------------------------------------------------------------------
Bullets ==
    { report[1].recommendations[i] : i \in 1..Len(report[1].recommendations) }

BulletCategories ==
    { "scalability", "hash_collision", "memory", "load_factor" }

(* C8, as claimed: the recommendation section holds the bullet of a        *)
(* category if and only if that category has a non-empty verdict with      *)
(* passed = false; a category without data gets no bullet.                 *)
C8_BulletIffFailed ==
    report # <<>> =>
        \A c \in BulletCategories : c \in Bullets <=> FailedCategory(c)

(* C8, amended: the recommendation section holds the bullet of a category  *)
(* (scalability, hash_collision, memory, load_factor) if and only if the   *)
(* category's verdict does not have passed = true: the category failed or  *)
(* it has no data.  Only a category with passed = true gets no bullet.     *)
C8_BulletIffNotPassed ==
    report # <<>> =>
        /\ Bullets \subseteq BulletCategories
        /\ \A c \in BulletCategories :
              /\ c \in Bullets <=> ~ PassedTrue(c)
              /\ ~ HasData(c) => c \in Bullets
              /\ FailedCategory(c) => c \in Bullets

\* a report with a bullet for a category without data, one for a failed
\* category and none for a passed one
C8_Witness ==
    /\ report # <<>>
    /\ ~ HasData("load_factor") /\ "load_factor" \in Bullets
    /\ FailedCategory("memory") /\ "memory" \in Bullets
    /\ PassedTrue("scalability") /\ "scalability" \notin Bullets

-----------------------------------------------------------------------------
TierOf(p, t) ==
    IF p = t THEN "ALL STRATEGIC TESTS PASSED - Framework ready for production!"
    ELSE IF 5 * p >= 4 * t THEN "MOSTLY READY - Minor optimizations recommended"
    ELSE "NEEDS OPTIMIZATION - Several critical issues found"

(* C9: after the per-category lines the generator appends the tally line   *)
(* passed/total (passed = verdicts with passed = true, total = non-empty   *)
(* verdicts, passed <= total) and exactly one recommendation: "ready" when *)
(* passed = total, else "mostly ready" when passed >= 80% of total, else   *)
(* "needs optimization"; the report's executive summary shows the same     *)
(* pair.                                                                   *)
C9_TallyAndTier ==
    /\ InsightsDone =>
          LET n == Len(insights) IN
          /\ n >= 2
          /\ \A k \in 1..(n - 2) : insights[k].about \in Categories
          /\ insights[n - 1].about = "overall"
          /\ insights[n - 1].args = <<NumPassed, NumWithData>>
          /\ NumPassed <= NumWithData
          /\ insights[n].about = "recommendation"
          /\ insights[n].text = TierOf(NumPassed, NumWithData)
    /\ report # <<>> =>
          /\ report[1].summary.passed = NumPassed
          /\ report[1].summary.total = NumWithData
          /\ report[1].insights = insights
    /\ ReportWritten => report_file = report

\* four of five passed: exactly 80%, the edge of "mostly ready"
C9_Witness ==
    /\ pc = "exited"
    /\ NumPassed = 4 /\ NumWithData = 5
    /\ insights[Len(insights)].text
          = "MOSTLY READY - Minor optimizations recommended"
    /\ report_file[1].summary.percent = 800

-----------------------------------------------------------------------------
\* the categories announced on stdout, in order
Announced ==
    LET a == SelectSeq(stdout, LAMBDA l : l[1] = "Analyzing")
    IN  [i \in 1..Len(a) |-> a[i][2]]

(* C10: a missing file or malformed JSON never raises out of the loader:   *)
(* a warning is printed, the category has no data (an empty verdict), and  *)
(* the orchestrator goes on with the remaining categories in the fixed     *)
(* order.                                                                  *)
C10_LoaderDegrades ==
    /\ exception \notin {"FileNotFoundError", "JSONDecodeError"}
    /\ \A i \in 1..Len(result_files) :
          Warned(i) =>
             /\ i < idx
             /\ result_files[i] \in DOMAIN analysis_results
             /\ analysis_results[result_files[i]] = EmptyDict
    /\ pc = "loop" =>
          /\ idx \in 1..Len(result_files)
          /\ DOMAIN analysis_results = { result_files[j] : j \in 1..(idx - 1) }
          /\ Announced = SubSeq(result_files, 1, idx - 1)
    /\ pc = "crashed" => exception \in {"KeyError", "ZeroDivisionError"}
    /\ pc \notin {"loop", "crashed"} =>
          /\ AllAnalyzed
          /\ Announced = result_files

\* a missing and a malformed file, and a later category analyzed all the same
C10_Witness ==
    /\ pc = "exited"
    /\ Printed("Warning: Invalid JSON", 5)
    /\ ~ HasData("efficiency")
    /\ HasData("load_factor")

-----------------------------------------------------------------------------
(* Vocabulary of the analyzer properties (AnalyzerSpec) *)

Analyzed ==
    pc = "unit_done"

Verdict ==
    analysis_results[category]

HasBenchmarks ==
    "benchmarks" \in DOMAIN raw_results

Bench ==
    raw_results.benchmarks

ScoreAt(i) ==
    Bench[i].primaryMetric.score

\* the entries whose name contains marker m
Matching(m) ==
    { i \in 1..Len(Bench) : m \in Bench[i].benchmark }

\* the entries whose name contains m and does not contain n
MatchingWithout(m, n) ==
    { i \in 1..Len(Bench) : m \in Bench[i].benchmark /\ n \notin Bench[i].benchmark }

FirstOf(S) ==
    CHOOSE i \in S : \A j \in S : i <= j

LastOf(S) ==
    CHOOSE i \in S : \A j \in S : j <= i

\* the verdict key that carries the value taken from the k-th marker's entry
UsedKey(cat, k) ==
    CASE cat = "scalability"    -> << "concurrent_avg_ns", "single_avg_ns" >>[k]
      [] cat = "contention"     -> << "avg_lazy_lookup_ns" >>[k]
      [] cat = "memory"         -> << "memory_overhead_mb", "threadlocal_cache_mb" >>[k]
      [] cat = "hash_collision" -> << "worst_case_lookup_ns" >>[k]
      [] cat = "efficiency"     -> << "concurrent_efficiency_ns", "single_efficiency_ns" >>[k]
      [] cat = "load_factor"    -> << "current_load_factor" >>[k]

\* what the verdict holds for an entry of that score
ValueOf(cat, score) ==
    IF cat = "memory" THEN RDiv(score, RInt(1048576)) ELSE score

PairCategories ==
    { "scalability", "memory", "efficiency" }

\* some required marker has no entry in the loaded file
RequiredAbsent ==
    \/ ~ HasBenchmarks
    \/ \E m \in MarkerSet(category) : Matching(m) = {}

-----------------------------------------------------------------------------
(* C3, as claimed: for each of the six analyzers, a loaded file whose      *)
(* required entries are absent gives an empty verdict, counted in neither  *)
(* tally.                                                                  *)
C3_AbsentEntriesEmptyVerdict ==
    (Analyzed /\ disk.kind = "json" /\ RequiredAbsent) =>
        /\ Verdict = EmptyDict
        /\ NumPassed = 0
        /\ NumWithData = 0

(* C3, amended: for the five analyzers other than memory, a loaded file    *)
(* in which a required entry is absent gives an empty verdict, counted in  *)
(* neither tally.  The memory analyzer gives an empty verdict only when    *)
(* the file has no benchmarks list; with a list, an absent memory-overhead *)
(* or threadlocal-cache entry counts as 0, the verdict is non-empty and is *)
(* counted in the total, and when both are absent the total is 0 and the   *)
(* verdict passes.                                                         *)
C3_AbsentEntriesExceptMemory ==
    (Analyzed /\ disk.kind = "json") =>
        /\ (category # "memory" /\ RequiredAbsent) =>
              /\ Verdict = EmptyDict
              /\ NumPassed = 0
              /\ NumWithData = 0
        /\ category = "memory" =>
              /\ Verdict = EmptyDict <=> ~ HasBenchmarks
              /\ ~ HasBenchmarks => (NumPassed = 0 /\ NumWithData = 0)
              /\ HasBenchmarks =>
                    /\ NumWithData = 1
                    /\ Matching("memoryOverhead") = {} =>
                          Verdict.memory_overhead_mb = PyInt(0)
                    /\ Matching("threadLocalCacheBehavior") = {} =>
                          Verdict.threadlocal_cache_mb = PyInt(0)
                    /\ (\A m \in MarkerSet("memory") : Matching(m) = {}) =>
                          /\ Verdict.total_memory_mb = PyInt(0)
                          /\ Verdict.passed = TRUE
                          /\ Verdict.status = "PASS"
                          /\ NumPassed = 1

\* a memory file with entries, none of them a memory or cache entry
C3_Witness ==
    /\ Analyzed
    /\ category = "memory"
    /\ HasBenchmarks
    /\ Len(Bench) >= 1
    /\ \A m \in MarkerSet("memory") : Matching(m) = {}
    /\ Verdict.passed = TRUE

-----------------------------------------------------------------------------
\* bytes of a megabyte figure of a memory verdict
BytesOf(mb) ==
    IF Len(mb) = 1 THEN mb[1] * 1048576 ELSE mb[1] * (1048576 \div mb[2])

\* the strict threshold of each category, in integer arithmetic on the
\* numerators and denominators of the verdict's figures
Threshold(cat, v) ==
    CASE cat = "scalability" ->
            LET c == v.concurrent_avg_ns
                s == v.single_avg_ns
            IN  5 * c[1] * s[2] > 16 * s[1] * c[2]
      [] cat = "efficiency" ->
            LET c == v.concurrent_efficiency_ns
                s == v.single_efficiency_ns
            IN  c[1] * s[2] > 3 * s[1] * c[2]
      [] cat = "contention" ->
            v.avg_lazy_lookup_ns[1] < 1000 * v.avg_lazy_lookup_ns[2]
      [] cat = "hash_collision" ->
            v.worst_case_lookup_ns[1] < 500 * v.worst_case_lookup_ns[2]
      [] cat = "memory" ->
            BytesOf(v.memory_overhead_mb) + BytesOf(v.threadlocal_cache_mb)
               < 10 * 1048576
      [] cat = "load_factor" ->
            10 * v.current_load_factor[1] < 7 * v.current_load_factor[2]

(* C5: in every non-empty verdict passed is true exactly when the          *)
(* category's strict threshold holds (scalability ratio > 0.80, efficiency *)
(* ratio > 0.75, contention < 1000, hash_collision < 500, memory total     *)
(* < 10 MB, load_factor < 0.70) and status is PASS exactly when passed is  *)
(* true; the boundary values fail.                                         *)
C5_StrictThresholds ==
    (Analyzed /\ Verdict # EmptyDict) =>
        /\ Verdict.passed = Threshold(category, Verdict)
        /\ Verdict.status = (IF Verdict.passed THEN "PASS" ELSE "FAIL")
        /\ (category = "scalability"
              /\ Verdict.concurrent_avg_ns = RInt(320)
              /\ Verdict.single_avg_ns = RInt(100)) =>
                 (Verdict.efficiency_ratio = Rat(8, 10) /\ Verdict.passed = FALSE)
        /\ (category = "efficiency"
              /\ Verdict.concurrent_efficiency_ns = RInt(300)
              /\ Verdict.single_efficiency_ns = RInt(100)) => Verdict.passed = FALSE
        /\ category = "contention" =>
              /\ Verdict.avg_lazy_lookup_ns = RInt(1000) => Verdict.passed = FALSE
              /\ Verdict.avg_lazy_lookup_ns = RInt(999) => Verdict.passed = TRUE
        /\ category = "hash_collision" =>
              /\ Verdict.worst_case_lookup_ns = RInt(500) => Verdict.passed = FALSE
              /\ Verdict.worst_case_lookup_ns = RInt(499) => Verdict.passed = TRUE
        /\ category = "load_factor" =>
              /\ Verdict.current_load_factor = Rat(70, 100) => Verdict.passed = FALSE
              /\ Verdict.current_load_factor = Rat(69, 100) => Verdict.passed = TRUE
        /\ (category = "memory"
              /\ Verdict.memory_overhead_mb = RInt(10)
              /\ Verdict.threadlocal_cache_mb = PyInt(0)) => Verdict.passed = FALSE

\* the scalability boundary: concurrent 320, single 100, ratio 0.80, failed
C5_Witness ==
    /\ Analyzed
    /\ category = "scalability"
    /\ Verdict # EmptyDict
    /\ Verdict.concurrent_avg_ns = RInt(320)
    /\ Verdict.single_avg_ns = RInt(100)
    /\ Verdict.passed = FALSE
    /\ Verdict.status = "FAIL"

-----------------------------------------------------------------------------
(* C6, as claimed: in every analyzer the value used for a required         *)
(* substring is that of the first entry, in file order, whose name         *)
(* contains it.                                                            *)
C6_FirstMatchWins ==
    (Analyzed /\ Verdict # EmptyDict) =>
        \A k \in 1..Len(Markers(category)) :
           Matching(Markers(category)[k]) # {} =>
              Verdict[UsedKey(category, k)]
                 = ValueOf(category, ScoreAt(FirstOf(Matching(Markers(category)[k]))))

(* C6, amended: contention, hash_collision and load_factor use the first   *)
(* entry in file order whose name contains the required substring.         *)
(* Scalability, memory and efficiency scan the whole list: for the first   *)
(* substring they use the last entry containing it, and for the second     *)
(* substring the last entry that contains it and does not contain the      *)
(* first substring (an entry containing both counts for the first only).   *)
C6_FirstOrLastMatch ==
    (pc \in {"unit_done", "unit_raised"} /\ HasBenchmarks) =>
        LET m1 == Markers(category)[1] IN
        IF category \notin PairCategories
        THEN /\ pc = "unit_done"
             /\ Matching(m1) = {} => Verdict = EmptyDict
             /\ Matching(m1) # {} =>
                   /\ Verdict # EmptyDict
                   /\ Verdict[UsedKey(category, 1)] = ScoreAt(FirstOf(Matching(m1)))
        ELSE
        LET m2 == Markers(category)[2]
            A  == Matching(m1)
            B  == MatchingWithout(m2, m1)
        IN
        IF category = "memory"
        THEN /\ pc = "unit_done"
             /\ Verdict.memory_overhead_mb =
                   (IF A = {} THEN PyInt(0)
                    ELSE ValueOf("memory", ScoreAt(LastOf(A))))
             /\ Verdict.threadlocal_cache_mb =
                   (IF B = {} THEN PyInt(0)
                    ELSE ValueOf("memory", ScoreAt(LastOf(B))))
        ELSE IF A = {} \/ B = {}
        THEN pc = "unit_done" /\ Verdict = EmptyDict
        ELSE IF pc = "unit_raised"
        THEN exception = "ZeroDivisionError" /\ ScoreAt(LastOf(B)) = RInt(0)
        ELSE /\ Verdict # EmptyDict
             /\ Verdict[UsedKey(category, 1)] = ScoreAt(LastOf(A))
             /\ Verdict[UsedKey(category, 2)] = ScoreAt(LastOf(B))
             /\ ScoreAt(LastOf(B)) # RInt(0)

\* two concurrentLookup entries with different scores: the later one is used
C6_Witness ==
    /\ Analyzed
    /\ category = "scalability"
    /\ Verdict # EmptyDict
    /\ Cardinality(Matching("concurrentLookup")) >= 2
    /\ ScoreAt(FirstOf(Matching("concurrentLookup")))
          # ScoreAt(LastOf(Matching("concurrentLookup")))
    /\ Verdict.concurrent_avg_ns = ScoreAt(LastOf(Matching("concurrentLookup")))

====
